---- MODULE Spec2Model ----
(***************************************************************************)
(* A model of the Uri value type of vscode-uri (src/lib/index.ts) and of   *)
(* the path utilities built on it.                                         *)
(*                                                                         *)
(* A JavaScript string is a sequence of UTF-16 code units; a code unit is  *)
(* a natural number.  A Uri instance is a record in `heap`; its identity   *)
(* is its index in `heap`.                                                 *)
(***************************************************************************)
EXTENDS Integers, Sequences, FiniteSets

VARIABLES heap, last, isWindows, map

vars == <<heap, last, isWindows, map>>

(***************************************************************************)
(* Characters                                                              *)
(***************************************************************************)
Ascii ==
  << " ", "!", "\"", "#", "$", "%", "&", "'", "(", ")", "*", "+", ",", "-", ".", "/",
     "0", "1", "2", "3", "4", "5", "6", "7", "8", "9", ":", ";", "<", "=", ">", "?",
     "@", "A", "B", "C", "D", "E", "F", "G", "H", "I", "J", "K", "L", "M", "N", "O",
     "P", "Q", "R", "S", "T", "U", "V", "W", "X", "Y", "Z", "[", "\\", "]", "^", "_",
     "", "a", "b", "c", "d", "e", "f", "g", "h", "i", "j", "k", "l", "m", "n", "o",
     "p", "q", "r", "s", "t", "u", "v", "w", "x", "y", "z", "{", "|", "}", "~" >>

\* the code unit of a printable ASCII character (the grave accent, 96, has no
\* spelling in a TLA+ string and is left out of the table)
Ord(ch) == CHOOSE c \in 32..126 : Ascii[c - 31] = ch

\* the string (sequence of code units) spelled by a tuple of characters
Str(t) == [i \in 1..Len(t) |-> Ord(t[i])]

SLASH == Ord("/")
BACKSLASH == Ord("\\")
COLON == Ord(":")
QUESTION == Ord("?")
HASH == Ord("#")
PERCENT == Ord("%")
PERIOD == Ord(".")
LF == Ord(" ") - 22
CR == Ord(" ") - 19
EMPTY == << >>
UpperLetters == Ord("A")..Ord("Z")
LowerLetters == Ord("a")..Ord("z")
Digits == Ord("0")..Ord("9")
UpperHex == Ord("A")..Ord("F")
LowerHex == Ord("a")..Ord("f")
\* the marks encodeURIComponent leaves alone: - _ . ! ~ * ' ( )
UriMarks == {Ord("-"), Ord("_"), Ord("."), Ord("!"), Ord("~"), Ord("*"), Ord("'"), Ord("("), Ord(")")}
\* the class [!'()*] of encodeURIComponent2
ExtraEscaped == {Ord("!"), Ord("'"), Ord("("), Ord(")"), Ord("*")}
\* the class [a-zA-z] of _driveLetterPath, as written
DriveLetterClass == LowerLetters \cup (Ord("A")..Ord("z"))
\* the characters the atom '.' of a regular expression does not match
LineTerminators == {LF, CR, 8232, 8233}
FILE == Str(<<"f", "i", "l", "e">>)

(***************************************************************************)
(* String primitives of the host language                                  *)
(***************************************************************************)
\* String.prototype.substring(from) / substr(from), 0-based
SubstringFrom(s, from) == SubSeq(s, from + 1, Len(s))

\* String.prototype.substring(from, to), 0-based, to exclusive
Substring(s, from, to) == SubSeq(s, from + 1, to)

\* String.prototype.indexOf(ch, from) for a one-character needle; -1 when absent
IndexOfChar(s, ch, from) ==
  IF \E i \in (from + 1)..Len(s) : s[i] = ch
  THEN (CHOOSE i \in (from + 1)..Len(s) :
          s[i] = ch /\ \A j \in (from + 1)..(i - 1) : s[j] # ch) - 1
  ELSE -1

\* s.indexOf('//') === 0
StartsWithTwoSlashes(s) == Len(s) >= 2 /\ s[1] = SLASH /\ s[2] = SLASH

IsUpper(c) == c \in UpperLetters
IsLower(c) == c \in LowerLetters

\* toLowerCase of one code unit (ASCII and Latin-1 letters)
LowerChar(c) ==
  IF IsUpper(c) \/ (c \in 192..222 /\ c # 215) THEN c + 32 ELSE c

\* String.prototype.toLowerCase
ToLowerCase(s) == [i \in 1..Len(s) |-> LowerChar(s[i])]

HexDigits == Str(<<"0", "1", "2", "3", "4", "5", "6", "7", "8", "9", "A", "B", "C", "D", "E", "F">>)

\* value of a hexadecimal digit of either case, -1 for any other character
HexVal(c) ==
  IF c \in Digits THEN c - 48
  ELSE IF c \in UpperHex THEN c - 55
  ELSE IF c \in LowerHex THEN c - 87
  ELSE -1

\* '%' followed by the two upper-case hexadecimal digits of a byte
PercentByte(b) == <<PERCENT, HexDigits[(b \div 16) + 1], HexDigits[(b % 16) + 1]>>

Ok(v) == [ok |-> TRUE, v |-> v]
Raise == [ok |-> FALSE, v |-> EMPTY]

(***************************************************************************)
(* Percent-codec: encodeURIComponent, decodeURIComponent (ECMAScript       *)
(* Encode / Decode) and the two encoders of the formatter                  *)
(***************************************************************************)
\* the characters encodeURIComponent leaves alone: A-Z a-z 0-9 - _ . ! ~ * ' ( )
IsUriUnreserved(c) == IsUpper(c) \/ IsLower(c) \/ c \in Digits \/ c \in UriMarks

\* the UTF-8 octets of a code point, each written as %HH
Utf8Escapes(cp) ==
  IF cp < 128 THEN PercentByte(cp)
  ELSE IF cp < 2048 THEN PercentByte(192 + (cp \div 64)) \o PercentByte(128 + (cp % 64))
  ELSE IF cp < 65536
    THEN PercentByte(224 + (cp \div 4096)) \o PercentByte(128 + ((cp \div 64) % 64))
         \o PercentByte(128 + (cp % 64))
  ELSE PercentByte(240 + (cp \div 262144)) \o PercentByte(128 + ((cp \div 4096) % 64))
       \o PercentByte(128 + ((cp \div 64) % 64)) \o PercentByte(128 + (cp % 64))

IsHighSurrogate(c) == c \in 55296..56319
IsLowSurrogate(c) == c \in 56320..57343

\* encodeURIComponent(s) from position k (1-based); raises URIError on a lone surrogate
RECURSIVE EncodeFrom(_, _)
EncodeFrom(s, k) ==
  IF k > Len(s) THEN Ok(EMPTY)
  ELSE IF IsUriUnreserved(s[k])
    THEN LET r == EncodeFrom(s, k + 1) IN IF r.ok THEN Ok(<<s[k]>> \o r.v) ELSE Raise
  ELSE IF IsLowSurrogate(s[k]) THEN Raise
  ELSE IF IsHighSurrogate(s[k])
    THEN IF k + 1 > Len(s) \/ ~IsLowSurrogate(s[k + 1]) THEN Raise
         ELSE LET cp == (s[k] - 55296) * 1024 + (s[k + 1] - 56320) + 65536
                  r == EncodeFrom(s, k + 2)
              IN IF r.ok THEN Ok(Utf8Escapes(cp) \o r.v) ELSE Raise
  ELSE LET r == EncodeFrom(s, k + 1) IN IF r.ok THEN Ok(Utf8Escapes(s[k]) \o r.v) ELSE Raise

encodeURIComponent(s) == EncodeFrom(s, 1)

\* _encode(ch): '%' followed by the upper-case hexadecimal code of ch, unpadded
RECURSIVE HexUpper(_)
HexUpper(n) == IF n < 16 THEN <<HexDigits[n + 1]>> ELSE HexUpper(n \div 16) \o <<HexDigits[(n % 16) + 1]>>

encodeChar(ch) == <<PERCENT>> \o HexUpper(ch)

\* s.replace(/[!'()*]/g, _encode): every match replaced
RECURSIVE ReplaceAllExtra(_)
ReplaceAllExtra(s) ==
  IF s = EMPTY THEN EMPTY
  ELSE (IF Head(s) \in ExtraEscaped
        THEN encodeChar(Head(s)) ELSE <<Head(s)>>) \o ReplaceAllExtra(Tail(s))

encodeURIComponent2(s) ==
  LET r == encodeURIComponent(s) IN IF r.ok THEN Ok(ReplaceAllExtra(r.v)) ELSE Raise

encodeNoop(s) == Ok(s)

\* s.replace(/[#?]/, _encode): the pattern is not global, only the first match is replaced
ReplaceFirstHashOrQuestion(s) ==
  IF \E i \in 1..Len(s) : s[i] \in {HASH, QUESTION}
  THEN LET i == CHOOSE i \in 1..Len(s) :
                  s[i] \in {HASH, QUESTION} /\ \A j \in 1..(i - 1) : s[j] \notin {HASH, QUESTION}
       IN SubSeq(s, 1, i - 1) \o encodeChar(s[i]) \o SubSeq(s, i + 1, Len(s))
  ELSE s

\* s[k..k+2] is '%' and two hexadecimal digits
IsEscapeAt(s, k) ==
  k + 2 <= Len(s) /\ s[k] = PERCENT /\ HexVal(s[k + 1]) >= 0 /\ HexVal(s[k + 2]) >= 0

ByteAt(s, k) == 16 * HexVal(s[k + 1]) + HexVal(s[k + 2])

\* number of octets announced by the leading octet of a UTF-8 sequence (0: invalid)
Utf8Length(b) ==
  IF b \in 192..223 THEN 2 ELSE IF b \in 224..239 THEN 3 ELSE IF b \in 240..247 THEN 4 ELSE 0

\* the code point of the n-octet sequence of escapes starting at k
Utf8CodePoint(s, k, n) ==
  LET c(j) == ByteAt(s, k + 3 * j) % 64
      b == ByteAt(s, k)
  IN IF n = 2 THEN (b % 32) * 64 + c(1)
     ELSE IF n = 3 THEN (b % 16) * 4096 + c(1) * 64 + c(2)
     ELSE (b % 8) * 262144 + c(1) * 4096 + c(2) * 64 + c(3)

\* shortest-form, non-surrogate, in-range
ValidCodePoint(cp, n) ==
  /\ (n = 2 => cp >= 128)
  /\ (n = 3 => cp >= 2048 /\ cp \notin 55296..57343)
  /\ (n = 4 => cp \in 65536..1114111)

CodeUnits(cp) ==
  IF cp < 65536 THEN <<cp>>
  ELSE <<55296 + ((cp - 65536) \div 1024), 56320 + ((cp - 65536) % 1024)>>

\* decodeURIComponent(s) from position k; raises URIError on a malformed sequence
RECURSIVE DecodeFrom(_, _)
DecodeFrom(s, k) ==
  IF k > Len(s) THEN Ok(EMPTY)
  ELSE IF s[k] # PERCENT
    THEN LET r == DecodeFrom(s, k + 1) IN IF r.ok THEN Ok(<<s[k]>> \o r.v) ELSE Raise
  ELSE IF ~IsEscapeAt(s, k) THEN Raise
  ELSE LET b == ByteAt(s, k) IN
    IF b < 128
    THEN LET r == DecodeFrom(s, k + 3) IN IF r.ok THEN Ok(<<b>> \o r.v) ELSE Raise
    ELSE LET n == Utf8Length(b) IN
      IF n = 0 THEN Raise
      ELSE IF k + 3 * n - 1 > Len(s) THEN Raise
      ELSE IF \E j \in 1..(n - 1) :
                ~IsEscapeAt(s, k + 3 * j) \/ ByteAt(s, k + 3 * j) \notin 128..191
        THEN Raise
      ELSE LET cp == Utf8CodePoint(s, k, n) IN
        IF ~ValidCodePoint(cp, n) THEN Raise
        ELSE LET r == DecodeFrom(s, k + 3 * n)
             IN IF r.ok THEN Ok(CodeUnits(cp) \o r.v) ELSE Raise

decodeURIComponent(s) == DecodeFrom(s, 1)

(***************************************************************************)
(* Uri: the value type                                                     *)
(***************************************************************************)
FieldNames == {"scheme", "authority", "path", "query", "fragment"}

\* a cache slot: null, or a string
Null == [null |-> TRUE, v |-> EMPTY]
Cached(v) == [null |-> FALSE, v |-> v]

\* !slot: null and the empty string are both falsy
Falsy(slot) == slot.null \/ slot.v = EMPTY

\* new Uri(): the constructor
NewUri ==
  [scheme |-> EMPTY, authority |-> EMPTY, path |-> EMPTY, query |-> EMPTY,
   fragment |-> EMPTY, formatted |-> Null, fsPath |-> Null]

\* a fresh instance holding the given five components
UriOf(scheme, authority, path, query, fragment) ==
  [NewUri EXCEPT !.scheme = scheme, !.authority = authority, !.path = path,
                 !.query = query, !.fragment = fragment]

\* the five components of an instance
Components(u) ==
  [scheme |-> u.scheme, authority |-> u.authority, path |-> u.path,
   query |-> u.query, fragment |-> u.fragment]

\* end (0-based, exclusive) of the longest run starting at `from` of characters not in `stop`
RunEnd(s, from, stop) ==
  IF \E i \in (from + 1)..Len(s) : s[i] \in stop
  THEN (CHOOSE i \in (from + 1)..Len(s) :
          s[i] \in stop /\ \A j \in (from + 1)..(i - 1) : s[j] \notin stop) - 1
  ELSE Len(s)

\* _regexp.exec(value): the groups 2, 4, 5, 7 and 9 of
\*   /^(([^:/?#]+?):)?(\/\/([^/?#]*))?([^?#]*)(\?([^#]*))?(#(.*))?/
\* a group that does not take part is the empty string
RegexpExec(value) ==
  LET n == Len(value)
      e1 == RunEnd(value, 0, {COLON, SLASH, QUESTION, HASH})
      has1 == e1 >= 1 /\ e1 < n /\ value[e1 + 1] = COLON
      p1 == IF has1 THEN e1 + 1 ELSE 0
      has3 == p1 + 2 <= n /\ value[p1 + 1] = SLASH /\ value[p1 + 2] = SLASH
      p3 == IF has3 THEN RunEnd(value, p1 + 2, {SLASH, QUESTION, HASH}) ELSE p1
      p5 == RunEnd(value, p3, {QUESTION, HASH})
      has6 == p5 < n /\ value[p5 + 1] = QUESTION
      p7 == IF has6 THEN RunEnd(value, p5 + 1, {HASH}) ELSE p5
      has8 == p7 < n /\ value[p7 + 1] = HASH
      p9 == IF has8 THEN RunEnd(value, p7 + 1, LineTerminators) ELSE p7
  IN [g2 |-> IF has1 THEN Substring(value, 0, e1) ELSE EMPTY,
      g4 |-> IF has3 THEN Substring(value, p1 + 2, p3) ELSE EMPTY,
      g5 |-> Substring(value, p3, p5),
      g7 |-> IF has6 THEN Substring(value, p5 + 1, p7) ELSE EMPTY,
      g9 |-> IF has8 THEN Substring(value, p7 + 1, p9) ELSE EMPTY]

\* Uri._parseComponents
parseComponents(value) ==
  LET match == RegexpExec(value)
  IN [scheme |-> match.g2, authority |-> match.g4, path |-> match.g5,
      query |-> match.g7, fragment |-> match.g9]

\* _validate without its second check (no authority, path starting with '//')
validateWithoutI2(ret) ==
  ~(ret.authority # EMPTY /\ ret.path # EMPTY /\ ret.path[1] # SLASH)

\* Uri._validate: TRUE when it returns, FALSE when it throws
validate(ret) ==
  /\ ~(ret.authority # EMPTY /\ ret.path # EMPTY /\ ret.path[1] # SLASH)
  /\ ~(ret.authority = EMPTY /\ StartsWithTwoSlashes(ret.path))

\* the outcome of a call that returns an instance or throws
Returned(u) == [kind |-> "uri", err |-> "", uri |-> u]
Thrown(err) == [kind |-> "error", err |-> err, uri |-> NewUri]

\* Uri.parse
parse(value) ==
  LET data == parseComponents(value)
      authority == decodeURIComponent(data.authority)
      path == decodeURIComponent(data.path)
      query == decodeURIComponent(data.query)
      fragment == decodeURIComponent(data.fragment)
  IN IF ~(authority.ok /\ path.ok /\ query.ok /\ fragment.ok) THEN Thrown("URIError")
     ELSE LET ret == UriOf(data.scheme, authority.v, path.v, query.v, fragment.v)
          IN IF validate(ret) THEN Returned(ret) ELSE Thrown("UriError")

\* path.replace(/\\/g, '/')
SlashNormalize(s) == [i \in 1..Len(s) |-> IF s[i] = BACKSLASH THEN SLASH ELSE s[i]]

\* a slash given to the empty path only
EnsureLeadingSlashIfEmpty(path) == IF path = EMPTY THEN <<SLASH>> ELSE path

\* the path made to start with a slash
EnsureLeadingSlash(path) == IF path = EMPTY \/ path[1] # SLASH THEN <<SLASH>> \o path ELSE path

\* Uri.file
file(fsPathArg) ==
  LET path == SlashNormalize(fsPathArg)
      unc == Len(path) >= 2 /\ path[1] = SLASH /\ path[1] = path[2]
      idx == IndexOfChar(path, SLASH, 2)
      authority == IF ~unc THEN EMPTY
                   ELSE IF idx = -1 THEN SubstringFrom(path, 2)
                   ELSE Substring(path, 2, idx)
      path1 == IF ~unc THEN path
               ELSE IF idx = -1 THEN EMPTY
               ELSE SubstringFrom(path, idx)
      path2 == EnsureLeadingSlash(path1)
      ret == UriOf(FILE, authority, path2, EMPTY, EMPTY)
  IN IF validate(ret) THEN Returned(ret) ELSE Thrown("UriError")

\* the argument of with and from: null, undefined, or an object whose five
\* properties are each absent or a string
Absent == [present |-> FALSE, v |-> EMPTY]
Given(v) == [present |-> TRUE, v |-> v]
NullChange ==
  [kind |-> "null", scheme |-> Absent, authority |-> Absent, path |-> Absent,
   query |-> Absent, fragment |-> Absent]
UndefinedChange == [NullChange EXCEPT !.kind = "undefined"]
EmptyChange == [NullChange EXCEPT !.kind = "object"]

\* an object with one property given
OneProp(name, v) == [EmptyChange EXCEPT ![name] = Given(v)]

\* an object repeating the components of an instance
OwnValues(u) ==
  [kind |-> "object", scheme |-> Given(u.scheme), authority |-> Given(u.authority),
   path |-> Given(u.path), query |-> Given(u.query), fragment |-> Given(u.fragment)]

\* change.f === undefined ? this.f : change.f
OrElsePresent(prop, current) == IF prop.present THEN prop.v ELSE current

\* change.f || this.f
OrElse(prop, current) == IF prop.present /\ prop.v # EMPTY THEN prop.v ELSE current

\* a with that returns its new instance without calling _validate
withUnvalidated(this, change) ==
  IF change.kind # "object" THEN [kind |-> "this", err |-> "", uri |-> this]
  ELSE LET ret == UriOf(OrElse(change.scheme, this.scheme),
                        OrElse(change.authority, this.authority),
                        OrElse(change.path, this.path),
                        OrElse(change.query, this.query),
                        OrElse(change.fragment, this.fragment))
       IN IF Components(ret) = Components(this)
          THEN [kind |-> "this", err |-> "", uri |-> this]
          ELSE Returned(ret)

\* a with that makes a new instance for every change object, equal or not
withAlwaysCopying(this, change) ==
  IF change.kind # "object" THEN [kind |-> "this", err |-> "", uri |-> this]
  ELSE LET ret == UriOf(OrElse(change.scheme, this.scheme),
                        OrElse(change.authority, this.authority),
                        OrElse(change.path, this.path),
                        OrElse(change.query, this.query),
                        OrElse(change.fragment, this.fragment))
       IN IF validate(ret) THEN Returned(ret) ELSE Thrown("UriError")

\* Uri.prototype.with: "this" when the receiver is returned, "uri" with the new
\* instance, or "error" when _validate throws
with(this, change) ==
  IF change.kind # "object" THEN [kind |-> "this", err |-> "", uri |-> this]
  ELSE LET scheme == OrElse(change.scheme, this.scheme)
           authority == OrElse(change.authority, this.authority)
           path == OrElse(change.path, this.path)
           query == OrElse(change.query, this.query)
           fragment == OrElse(change.fragment, this.fragment)
       IN IF /\ scheme = this.scheme
             /\ authority = this.authority
             /\ path = this.path
             /\ query = this.query
             /\ fragment = this.fragment
          THEN [kind |-> "this", err |-> "", uri |-> this]
          ELSE LET ret == UriOf(scheme, authority, path, query, fragment)
               IN IF validate(ret) THEN Returned(ret) ELSE Thrown("UriError")

\* a from that hands whatever it is given to with
fromUnchecked(components) ==
  LET r == with(NewUri, components)
  IN IF r.kind = "this" THEN Returned(NewUri) ELSE r

\* Uri.from: the instance returned is new in either case
from(components) ==
  IF components.kind # "object" THEN Thrown("Error")
  ELSE LET r == with(NewUri, components)
       IN IF r.kind = "this" THEN Returned(NewUri) ELSE r

\* the encoder chosen by _asFormatted
Encoder(skipEncoding, s) == IF ~skipEncoding THEN encodeURIComponent2(s) ELSE encodeNoop(s)

\* _upperCaseDrive.exec(path), /^(\/)?([A-Z]:)/: "none", or which way it matched
UpperCaseDriveExec(path) ==
  IF Len(path) >= 3 /\ path[1] = SLASH /\ IsUpper(path[2]) /\ path[3] = COLON THEN "slash"
  ELSE IF Len(path) >= 2 /\ IsUpper(path[1]) /\ path[2] = COLON THEN "bare"
  ELSE "none"

\* the loop of _asFormatted over the '/'-delimited segments of path, from lastIdx
RECURSIVE FormatSegments(_, _, _)
FormatSegments(path, lastIdx, skipEncoding) ==
  LET idx == IndexOfChar(path, SLASH, lastIdx)
  IN IF idx = -1
     THEN LET e == Encoder(skipEncoding, SubstringFrom(path, lastIdx))
          IN IF e.ok THEN Ok(ReplaceFirstHashOrQuestion(e.v)) ELSE Raise
     ELSE LET e == Encoder(skipEncoding, Substring(path, lastIdx, idx))
              r == FormatSegments(path, idx + 1, skipEncoding)
          IN IF e.ok /\ r.ok
             THEN Ok(ReplaceFirstHashOrQuestion(e.v) \o <<SLASH>> \o r.v)
             ELSE Raise

\* the marker of _asFormatted put only before an authority
SlashesOnlyWithAuthority(uri) ==
  IF uri.authority # EMPTY THEN <<SLASH, SLASH>> ELSE EMPTY

\* the '//' marker of _asFormatted
Slashes(uri) ==
  IF uri.authority # EMPTY \/ uri.scheme = FILE THEN <<SLASH, SLASH>> ELSE EMPTY

\* the authority of _asFormatted with the encoder applied to all of it
FormatAuthorityWhole(uri, skipEncoding) ==
  IF uri.authority = EMPTY THEN Ok(EMPTY)
  ELSE Encoder(skipEncoding, ToLowerCase(uri.authority))

\* the authority branch of _asFormatted: lower-cased, the text before the
\* first ':' through the encoder, the rest as it is
FormatAuthority(uri, skipEncoding) ==
  LET authority == ToLowerCase(uri.authority)
      idx == IndexOfChar(authority, COLON, 0)
  IN IF uri.authority = EMPTY THEN Ok(EMPTY)
     ELSE IF idx = -1 THEN Encoder(skipEncoding, authority)
     ELSE LET host == Encoder(skipEncoding, Substring(authority, 0, idx))
          IN IF host.ok THEN Ok(host.v \o SubstringFrom(authority, idx)) ELSE Raise

\* Uri._asFormatted: the string, or a raise (group 1 of _upperCaseDrive is
\* undefined when the path starts with the drive letter itself, and reading
\* its length throws a TypeError; the encoder throws a URIError)
asFormatted(uri, skipEncoding) ==
  LET schemePart == IF uri.scheme # EMPTY THEN uri.scheme \o <<COLON>> ELSE EMPTY
      authority == FormatAuthority(uri, skipEncoding)
      m == UpperCaseDriveExec(uri.path)
      path == IF m = "slash"
              THEN <<SLASH, LowerChar(uri.path[2]), COLON>> \o SubstringFrom(uri.path, 3)
              ELSE uri.path
      pathPart == IF uri.path = EMPTY THEN Ok(EMPTY)
                  ELSE IF m = "bare" THEN Raise
                  ELSE FormatSegments(path, 0, skipEncoding)
      query == IF uri.query = EMPTY THEN Ok(EMPTY) ELSE Encoder(skipEncoding, uri.query)
      fragment == IF uri.fragment = EMPTY THEN Ok(EMPTY) ELSE Encoder(skipEncoding, uri.fragment)
  IN IF ~(authority.ok /\ pathPart.ok /\ query.ok /\ fragment.ok) THEN Raise
     ELSE Ok(schemePart \o Slashes(uri) \o authority.v \o pathPart.v
             \o (IF uri.query # EMPTY THEN <<QUESTION>> \o query.v ELSE EMPTY)
             \o (IF uri.fragment # EMPTY THEN <<HASH>> \o fragment.v ELSE EMPTY))

\* _driveLetterPath.test(path), /^\/[a-zA-z]:/ (the class reads A-z as written)
DriveLetterPathTest(path) ==
  /\ Len(path) >= 3
  /\ path[1] = SLASH
  /\ path[2] \in DriveLetterClass
  /\ path[3] = COLON

\* the value the fsPath getter computes
fsPathValue(uri, windows) ==
  LET value == IF uri.authority # EMPTY /\ uri.scheme = FILE
                 THEN <<SLASH, SLASH>> \o uri.authority \o uri.path
               ELSE IF DriveLetterPathTest(uri.path)
                 THEN <<LowerChar(uri.path[2])>> \o SubstringFrom(uri.path, 2)
               ELSE uri.path
  IN IF windows THEN [i \in 1..Len(value) |-> IF value[i] = SLASH THEN BACKSLASH ELSE value[i]]
     ELSE value

(***************************************************************************)
(* Path utilities (Utils) over the posix flavour of the host path module   *)
(***************************************************************************)
\* the '/'-delimited pieces of a string ('a//b' has the pieces a, '', b)
RECURSIVE SplitSlash(_)
SplitSlash(s) ==
  LET idx == IndexOfChar(s, SLASH, 0)
  IN IF idx = -1 THEN <<s>>
     ELSE <<Substring(s, 0, idx)>> \o SplitSlash(SubstringFrom(s, idx + 1))

\* the pieces joined with '/'
RECURSIVE JoinSlash(_)
JoinSlash(pieces) ==
  IF pieces = << >> THEN EMPTY
  ELSE IF Len(pieces) = 1 THEN pieces[1]
  ELSE pieces[1] \o <<SLASH>> \o JoinSlash(Tail(pieces))

DOT == <<PERIOD>>
DOTDOT == <<PERIOD, PERIOD>>

\* one step of normalizeString: the segments kept so far, then the next piece
PushSegment(res, piece, allowAboveRoot) ==
  IF piece = EMPTY \/ piece = DOT THEN res
  ELSE IF piece = DOTDOT
    THEN IF res # << >> /\ res[Len(res)] # DOTDOT THEN SubSeq(res, 1, Len(res) - 1)
         ELSE IF allowAboveRoot THEN Append(res, DOTDOT)
         ELSE res
  ELSE Append(res, piece)

RECURSIVE FoldSegments(_, _, _)
FoldSegments(res, pieces, allowAboveRoot) ==
  IF pieces = << >> THEN res
  ELSE FoldSegments(PushSegment(res, Head(pieces), allowAboveRoot), Tail(pieces), allowAboveRoot)

\* normalizeString(path, allowAboveRoot): '.' and '..' resolved, repeated '/' dropped
normalizeString(path, allowAboveRoot) ==
  JoinSlash(FoldSegments(<< >>, SplitSlash(path), allowAboveRoot))

\* a normalize that gives the empty string where posix.normalize gives '.'
posixNormalizeToEmpty(path) ==
  IF path = EMPTY THEN EMPTY
  ELSE LET isAbsolute == path[1] = SLASH
           trailingSeparator == path[Len(path)] = SLASH
           n == normalizeString(path, ~isAbsolute)
       IN IF n = EMPTY
          THEN IF isAbsolute THEN <<SLASH>> ELSE EMPTY
          ELSE (IF isAbsolute THEN <<SLASH>> ELSE EMPTY) \o n
               \o (IF trailingSeparator THEN <<SLASH>> ELSE EMPTY)

\* posix.normalize
posixNormalize(path) ==
  IF path = EMPTY THEN DOT
  ELSE LET isAbsolute == path[1] = SLASH
           trailingSeparator == path[Len(path)] = SLASH
           n == normalizeString(path, ~isAbsolute)
       IN IF n = EMPTY
          THEN IF isAbsolute THEN <<SLASH>>
               ELSE IF trailingSeparator THEN <<PERIOD, SLASH>> ELSE DOT
          ELSE (IF isAbsolute THEN <<SLASH>> ELSE EMPTY) \o n
               \o (IF trailingSeparator THEN <<SLASH>> ELSE EMPTY)

\* the non-empty strings of a list
RECURSIVE NonEmpty(_)
NonEmpty(args) ==
  IF args = << >> THEN << >>
  ELSE (IF Head(args) = EMPTY THEN << >> ELSE <<Head(args)>>) \o NonEmpty(Tail(args))

\* posix.join(...args)
posixJoin(args) ==
  IF NonEmpty(args) = << >> THEN DOT ELSE posixNormalize(JoinSlash(NonEmpty(args)))

\* the loop of posix.resolve from the right: [path, absolute] accumulated over
\* args[1..i], then the working directory when no argument is absolute
RECURSIVE ResolveLoop(_, _, _, _)
ResolveLoop(args, i, resolvedPath, cwd) ==
  LET path == IF i >= 1 THEN args[i] ELSE cwd
  IN IF i < 0 THEN [path |-> resolvedPath, absolute |-> FALSE]
     ELSE IF path = EMPTY THEN ResolveLoop(args, i - 1, resolvedPath, cwd)
     ELSE IF path[1] = SLASH
       THEN [path |-> path \o <<SLASH>> \o resolvedPath, absolute |-> TRUE]
     ELSE ResolveLoop(args, i - 1, path \o <<SLASH>> \o resolvedPath, cwd)

\* posix.resolve(...args) in a process whose working directory is cwd
posixResolve(args, cwd) ==
  LET r == ResolveLoop(args, Len(args), EMPTY, cwd)
      n == normalizeString(r.path, ~r.absolute)
  IN IF r.absolute THEN <<SLASH>> \o n
     ELSE IF n # EMPTY THEN n ELSE DOT

\* posix.dirname
posixDirname(path) ==
  IF path = EMPTY THEN DOT
  ELSE LET hasRoot == path[1] = SLASH
           \* 0-based positions >= 1 of a '/' that has a character other than '/' after it
           ends == {i \in 1..(Len(path) - 1) :
                      path[i + 1] = SLASH /\ \E j \in (i + 2)..Len(path) : path[j] # SLASH}
           end == IF ends = {} THEN -1 ELSE CHOOSE i \in ends : \A j \in ends : j <= i
       IN IF end = -1 THEN (IF hasRoot THEN <<SLASH>> ELSE DOT)
          ELSE IF hasRoot /\ end = 1 THEN <<SLASH, SLASH>>
          ELSE Substring(path, 0, end)

\* a joinPath that puts the segments after the path and does not normalize
joinPathUnnormalized(uri, paths) ==
  with(uri, OneProp("path", JoinSlash(<<uri.path>> \o paths)))

\* Utils.joinPath(uri, ...paths)
joinPath(uri, paths) == with(uri, OneProp("path", posixJoin(<<uri.path>> \o paths)))

\* Utils.resolvePath(uri, ...paths)
resolvePath(uri, paths, cwd) == with(uri, OneProp("path", posixResolve(<<uri.path>> \o paths, cwd)))

\* a dirname that hands every result of posix.dirname to with
dirnameAlwaysWith(uri) == with(uri, OneProp("path", posixDirname(uri.path)))

\* Utils.dirname(uri)
dirname(uri) ==
  LET path == posixDirname(uri.path)
  IN IF Len(path) = 1 /\ path[1] = PERIOD THEN [kind |-> "this", err |-> "", uri |-> uri]
     ELSE with(uri, OneProp("path", path))

(***************************************************************************)
(* The program state and the calls                                         *)
(*   heap      : the Uri instances the caller keeps for further calls; an  *)
(*               instance's identity is its index                          *)
(*   last      : the last call made: its arguments, its outcome, and the   *)
(*               identity and the components of the instance it returned,  *)
(*               and the caches of its receiver it assigned                *)
(*   isWindows : the platform flag read by the fsPath getter               *)
(*   map       : the entries of the one ResourceMap, a key and a value      *)
(*               each, in the order of insertion                            *)
(* An instance is kept while fewer than `cap` are; past that the caller    *)
(* drops the instance a call returns (its identity, Len(heap) + 1, is then *)
(* that of no kept instance).                                              *)
(***************************************************************************)
Call(op, recv, str, change, skip) ==
  [op |-> op, recv |-> recv, str |-> str, change |-> change, skip |-> skip,
   paths |-> << >>, kind |-> "none", err |-> "", ref |-> 0, out |-> EMPTY,
   uri |-> Components(NewUri), wrote |-> {}, value |-> 0, flag |-> FALSE,
   entries |-> << >>]

ReturnsRef(c, ref, u) == [c EXCEPT !.kind = "uri", !.ref = ref, !.uri = Components(u)]
ReturnsString(c, out) == [c EXCEPT !.kind = "string", !.out = out]
Throws(c, err) == [c EXCEPT !.kind = "error", !.err = err]

Init ==
  /\ heap = << >>
  /\ last = Call("init", 0, EMPTY, NullChange, FALSE)
  /\ isWindows \in BOOLEAN
  /\ map = << >>

\* the heap after a call returned the new instance u
Allocate(u, cap) == IF Len(heap) < cap THEN Append(heap, u) ELSE heap

\* a static factory returned r: a new instance, or a throw
Construct(c, r, cap) ==
  /\ heap' = IF r.kind = "uri" THEN Allocate(r.uri, cap) ELSE heap
  /\ last' = IF r.kind = "uri" THEN ReturnsRef(c, Len(heap) + 1, r.uri) ELSE Throws(c, r.err)
  /\ UNCHANGED <<isWindows, map>>

\* Uri.parse(value)
Parse(value, cap) == Construct(Call("parse", 0, value, NullChange, FALSE), parse(value), cap)

\* Uri.from(components)
From(components, cap) ==
  Construct(Call("from", 0, EMPTY, components, FALSE), from(components), cap)

\* Uri.file(path)
File(path, cap) == Construct(Call("file", 0, path, NullChange, FALSE), file(path), cap)

\* a call on heap[i] that writes the new components into the receiver
DeriveInPlace(c, i, r, cap) ==
  /\ heap' = IF r.kind = "uri" THEN [heap EXCEPT ![i] = r.uri] ELSE heap
  /\ last' = IF r.kind = "error" THEN Throws(c, r.err) ELSE ReturnsRef(c, i, r.uri)
  /\ UNCHANGED <<isWindows, map>>

\* a call on heap[i] returned r: the receiver, a new instance, or a throw
Derive(c, i, r, cap) ==
  /\ heap' = IF r.kind = "uri" THEN Allocate(r.uri, cap) ELSE heap
  /\ last' = IF r.kind = "uri" THEN ReturnsRef(c, Len(heap) + 1, r.uri)
             ELSE IF r.kind = "this" THEN ReturnsRef(c, i, heap[i])
             ELSE Throws(c, r.err)
  /\ UNCHANGED <<isWindows, map>>

\* heap[i].with(change)
With(i, change, cap) ==
  Derive(Call("with", i, EMPTY, change, FALSE), i, with(heap[i], change), cap)

\* Utils.joinPath(heap[i], ...paths)
JoinPath(i, paths, cap) ==
  Derive([Call("joinPath", i, EMPTY, NullChange, FALSE) EXCEPT !.paths = paths],
         i, joinPath(heap[i], paths), cap)

\* Utils.resolvePath(heap[i], ...paths), the process being in directory cwd
ResolvePath(i, paths, cwd, cap) ==
  Derive([Call("resolvePath", i, cwd, NullChange, FALSE) EXCEPT !.paths = paths],
         i, resolvePath(heap[i], paths, cwd), cap)

\* Utils.dirname(heap[i])
Dirname(i, cap) ==
  Derive(Call("dirname", i, EMPTY, NullChange, FALSE), i, dirname(heap[i]), cap)

\* heap[i].toString(skipEncoding)
ToString(i, skipEncoding) ==
  LET c == Call("toString", i, EMPTY, NullChange, skipEncoding)
      f == asFormatted(heap[i], skipEncoding)
  IN /\ IF ~skipEncoding /\ ~Falsy(heap[i].formatted)
        THEN heap' = heap /\ last' = ReturnsString(c, heap[i].formatted.v)
        ELSE IF ~f.ok THEN heap' = heap /\ last' = Throws(c, "TypeError")
        ELSE /\ heap' = IF skipEncoding THEN heap
                        ELSE [heap EXCEPT ![i].formatted = Cached(f.v)]
             /\ last' = [ReturnsString(c, f.v) EXCEPT
                          !.wrote = IF skipEncoding THEN {} ELSE {"formatted"}]
     /\ UNCHANGED <<isWindows, map>>

\* the effect of reading heap[i].fsPath on the heap
FsPathRead(i) ==
  IF Falsy(heap[i].fsPath)
  THEN [heap EXCEPT ![i].fsPath = Cached(fsPathValue(heap[i], isWindows))]
  ELSE heap

\* the caches a read of heap[i].fsPath assigns
FsPathWrites(i) == IF Falsy(heap[i].fsPath) THEN {"fsPath"} ELSE {}

\* heap[i].fsPath
FsPath(i) ==
  /\ heap' = FsPathRead(i)
  /\ last' = [ReturnsString(Call("fsPath", i, EMPTY, NullChange, FALSE), heap'[i].fsPath.v)
               EXCEPT !.wrote = FsPathWrites(i)]
  /\ UNCHANGED <<isWindows, map>>

\* heap[i].toJSON()
ToJSON(i) ==
  /\ heap' = FsPathRead(i)
  /\ last' = [Call("toJSON", i, EMPTY, NullChange, FALSE) EXCEPT
                !.kind = "json", !.out = heap'[i].fsPath.v, !.uri = Components(heap[i]),
                !.wrote = FsPathWrites(i)]
  /\ UNCHANGED <<isWindows, map>>

(***************************************************************************)
(* ResourceMap: a Map from the key of a Uri to a value. The built-in Map   *)
(* keeps its entries in the order their keys were first set; the key       *)
(* function is the default one, resource.toString()                        *)
(***************************************************************************)
\* the values set
MapValues == {1, 2}

\* the Uris the map is called with, as components given to from: two
\* authorities that differ in case only, an authority whose port holds a '#',
\* a path, and a path that starts with an upper-case drive letter
MapComponents ==
  {OwnValues(UriOf(Str(<<"f", "o", "o">>), authority, EMPTY, EMPTY, EMPTY)) :
     authority \in {Str(<<"h">>), Str(<<"H">>), Str(<<":", "#">>)}}
  \cup
  {OwnValues(UriOf(Str(<<"f", "o", "o">>), EMPTY, path, EMPTY, EMPTY)) :
     path \in {Str(<<"/", "a">>), Str(<<"C", ":">>)}}

\* the strings toString() returns for those Uris
MapKeys ==
  {asFormatted(from(components).uri, FALSE).v :
     components \in {c \in MapComponents : asFormatted(from(c).uri, FALSE).ok}}

\* the place of key in the entries, 0 when it is not there
IndexOfKey(entries, key) ==
  IF \E k \in 1..Len(entries) : entries[k].key = key
  THEN CHOOSE k \in 1..Len(entries) : entries[k].key = key
  ELSE 0

\* a set that puts every entry at the end, whether its key is there or not
MapSetAppending(entries, key, value) == Append(entries, [key |-> key, value |-> value])

\* Map.prototype.set: the value replaced in place, or a new entry at the end
MapSet(entries, key, value) ==
  IF IndexOfKey(entries, key) = 0 THEN Append(entries, [key |-> key, value |-> value])
  ELSE [entries EXCEPT ![IndexOfKey(entries, key)].value = value]

\* Map.prototype.delete: the entries without that of the key
MapDelete(entries, key) ==
  LET at == IndexOfKey(entries, key)
  IN IF at = 0 THEN entries
     ELSE SubSeq(entries, 1, at - 1) \o SubSeq(entries, at + 1, Len(entries))

\* defaultToKey(heap[i]): resource.toString(), from the cache when it is set
ToKey(i) ==
  IF ~Falsy(heap[i].formatted) THEN Ok(heap[i].formatted.v) ELSE asFormatted(heap[i], FALSE)

\* the heap after defaultToKey(heap[i]): toString() fills the cache
HeapAfterToKey(i) ==
  IF ~Falsy(heap[i].formatted) \/ ~ToKey(i).ok THEN heap
  ELSE [heap EXCEPT ![i].formatted = Cached(ToKey(i).v)]

\* a method of the map called with heap[i]: the key is computed, which may
\* throw, and then the method gives the entries and the outcome
Keyed(c, i, entries, outcome) ==
  /\ heap' = HeapAfterToKey(i)
  /\ map' = IF ToKey(i).ok THEN entries ELSE map
  /\ last' = IF ToKey(i).ok THEN outcome ELSE Throws(c, "TypeError")
  /\ UNCHANGED isWindows

\* map.set(heap[i], value)
Set(i, value) ==
  LET c == [Call("set", i, EMPTY, NullChange, FALSE) EXCEPT !.value = value]
  IN Keyed(c, i, MapSet(map, ToKey(i).v, value), [c EXCEPT !.kind = "void"])

\* map.get(heap[i])
Get(i) ==
  LET c == Call("get", i, EMPTY, NullChange, FALSE)
      at == IndexOfKey(map, ToKey(i).v)
  IN Keyed(c, i, map, IF at = 0 THEN [c EXCEPT !.kind = "undefined"]
                      ELSE [c EXCEPT !.kind = "value", !.value = map[at].value])

\* map.has(heap[i])
Has(i) ==
  LET c == Call("has", i, EMPTY, NullChange, FALSE)
  IN Keyed(c, i, map, [c EXCEPT !.kind = "boolean", !.flag = IndexOfKey(map, ToKey(i).v) # 0])

\* map.delete(heap[i])
Delete(i) ==
  LET c == Call("delete", i, EMPTY, NullChange, FALSE)
  IN Keyed(c, i, MapDelete(map, ToKey(i).v),
           [c EXCEPT !.kind = "boolean", !.flag = IndexOfKey(map, ToKey(i).v) # 0])

\* map.clear()
Clear ==
  /\ map' = << >>
  /\ last' = [Call("clear", 0, EMPTY, NullChange, FALSE) EXCEPT !.kind = "void"]
  /\ UNCHANGED <<heap, isWindows>>

\* map.size
Size ==
  /\ last' = [Call("size", 0, EMPTY, NullChange, FALSE) EXCEPT
                !.kind = "number", !.value = Len(map)]
  /\ UNCHANGED <<heap, isWindows, map>>

\* URI.parse on each string a key of the map can be
ParsedKey == [key \in MapKeys |-> parse(key)]

\* what entries(), keys(), forEach and the iterator yield for one entry: the
\* outcome of URI.parse on the key, and the value
Yielded(parsed, entry) == [key |-> parsed[entry.key], value |-> entry.value]

\* map.entries() run to its end (keys(), forEach and the iterator parse the
\* keys the same way): the pairs yielded, up to a parse that throws
Entries(parsed) ==
  LET yielded == [k \in 1..Len(map) |-> Yielded(parsed, map[k])]
      c == Call("entries", 0, EMPTY, NullChange, FALSE)
  IN /\ last' = IF \E k \in 1..Len(map) : yielded[k].key.kind = "error"
                THEN Throws(c, "Error")
                ELSE [c EXCEPT !.kind = "entries", !.entries = yielded]
     /\ UNCHANGED <<heap, isWindows, map>>

(***************************************************************************)
(* Inputs                                                                  *)
(***************************************************************************)
MaxObjs == 1

SmallParseInputs ==
  {Str(<<"a", ":", "b">>), Str(<<"a", ":", "/", "/", "/", "/", "b">>)}

SmallFileInputs == {Str(<<"\\", "\\", "A", "\\", "b">>)}

SmallChanges ==
  {NullChange, UndefinedChange, EmptyChange, OneProp("authority", Str(<<"A">>)),
   OneProp("path", Str(<<"/", "/", "b">>))}
    \cup {OneProp(f, EMPTY) : f \in FieldNames}

SmallPaths == {<<Str(<<".", ".">>)>>, <<Str(<<"/", "c">>)>>}

SmallCwds == {Str(<<"/">>), Str(<<"/", "w">>)}

Next ==
  \/ \E value \in SmallParseInputs : Parse(value, MaxObjs)
  \/ \E components \in SmallChanges : From(components, MaxObjs)
  \/ \E path \in SmallFileInputs : File(path, MaxObjs)
  \/ \E i \in DOMAIN heap : \E change \in SmallChanges \cup {OwnValues(heap[i])} :
       With(i, change, MaxObjs)
  \/ \E i \in DOMAIN heap : \E skipEncoding \in BOOLEAN : ToString(i, skipEncoding)
  \/ \E i \in DOMAIN heap : FsPath(i)
  \/ \E i \in DOMAIN heap : ToJSON(i)
  \/ \E i \in DOMAIN heap : \E paths \in SmallPaths : JoinPath(i, paths, MaxObjs)
  \/ \E i \in DOMAIN heap : \E paths \in SmallPaths : \E cwd \in SmallCwds :
       ResolvePath(i, paths, cwd, MaxObjs)
  \/ \E i \in DOMAIN heap : Dirname(i, MaxObjs)

Spec == Init /\ [][Next]_vars

(***************************************************************************)
(* The static factories as functions of their argument: one call is made,  *)
(* on a string over an alphabet up to a length, and the instance it        *)
(* returns is looked at but not kept                                       *)
(***************************************************************************)
MaxParseLen == 3
MaxFileLen == 5

ParseAlphabet == {Ord("a"), COLON, SLASH, QUESTION, HASH, PERCENT, Ord("2"), Ord("3"), LF}

FileAlphabet == {Ord("a"), COLON, SLASH, BACKSLASH}

\* what an argument of parse may have before the characters of the alphabet:
\* nothing, 'file:', or an authority with an empty host and a port marker, '//:'
ParsePrefixes == {EMPTY, FILE \o <<COLON>>, <<SLASH, SLASH, COLON>>}

\* the module loaded on a platform other than Windows (neither factory reads the flag)
InitInputs == Init /\ ~isWindows

\* no call has been made yet
NoCallYet == last.op = "init"

\* a static factory called first, the instance it returns not being kept
First(c, r) == NoCallYet /\ Construct(c, r, 0)

\* Uri.parse(value) called first
ParseFirst(value) == First(Call("parse", 0, value, NullChange, FALSE), parse(value))

\* Uri.file(path) called first
FileFirst(path) == First(Call("file", 0, path, NullChange, FALSE), file(path))

NextInputs ==
  \/ \E prefix \in ParsePrefixes : \E k \in 0..MaxParseLen : \E s \in [1..k -> ParseAlphabet] :
       ParseFirst(prefix \o s)
  \/ \E k \in 0..MaxFileLen : \E path \in [1..k -> FileAlphabet] : FileFirst(path)

SpecInputs == InitInputs /\ [][NextInputs]_vars

(***************************************************************************)
(* Formatting: one instance is made, by from or by file, and kept;         *)
(* toString and fsPath are then called on it in any order                  *)
(***************************************************************************)
MaxAuthorityLen == 2
MaxUriPathLen == 3
MaxFsPathLen == 4

HTTP == Str(<<"h", "t", "t", "p">>)

FormatSchemes == {EMPTY, FILE, HTTP}

\* a host letter of either case, the port marker, and a character the encoder escapes
AuthorityAlphabet == {Ord("h"), Ord("H"), COLON, Ord(" ")}

\* the marks toString escapes in a path
MarkAlphabet == {SLASH, HASH, QUESTION, Ord("a")}

\* a drive letter of either case, and '_', which lies between 'Z' and 'a'
DriveAlphabet == {SLASH, COLON, Ord("c"), Ord("C"), Ord("_")}

\* the argument of file: a drive alphabet with the backslash
FsPathAlphabet == DriveAlphabet \cup {BACKSLASH}

\* both absent, or a query and a fragment
QueryAndFragment == {<<EMPTY, EMPTY>>, <<Str(<<"q">>), Str(<<"f">>)>>}

\* the components given to from: an authority over its alphabet with a short
\* path, or a path over one of the path alphabets with or without a host
FormatComponents ==
  {OwnValues(UriOf(scheme, authority, path, qf[1], qf[2])) :
     scheme \in FormatSchemes,
     authority \in UNION {[1..k -> AuthorityAlphabet] : k \in 1..MaxAuthorityLen},
     path \in {EMPTY, Str(<<"/", "a">>)},
     qf \in QueryAndFragment}
  \cup
  {OwnValues(UriOf(scheme, authority, path, qf[1], qf[2])) :
     scheme \in FormatSchemes,
     authority \in {EMPTY, Str(<<"h">>)},
     path \in UNION {[1..k -> MarkAlphabet] \cup [1..k -> DriveAlphabet] : k \in 0..MaxUriPathLen},
     qf \in QueryAndFragment}

\* Uri.from called first, its instance kept
FromFirst ==
  /\ NoCallYet
  /\ \E components \in FormatComponents : From(components, MaxObjs)

\* Uri.file called first, its instance kept
FileKept ==
  /\ NoCallYet
  /\ \E k \in 0..MaxFsPathLen : \E path \in [1..k -> FsPathAlphabet] : File(path, MaxObjs)

NextFormat ==
  \/ FromFirst
  \/ FileKept
  \/ \E i \in DOMAIN heap : \E skipEncoding \in BOOLEAN : ToString(i, skipEncoding)
  \/ \E i \in DOMAIN heap : FsPath(i)

SpecFormat == Init /\ [][NextFormat]_vars

(***************************************************************************)
(* Joining: one instance is made by from and kept, and joinPath is called  *)
(* on it once, with up to MaxSegments segments; the instance joinPath      *)
(* returns is looked at but not kept                                       *)
(***************************************************************************)
MaxJoinPathLen == 5
MaxSegments == 2

FOO == Str(<<"f", "o", "o">>)

\* a name, the separator, and the character of '.' and '..'
JoinAlphabet == {Ord("a"), SLASH, PERIOD}

\* the segments given to joinPath
JoinSegments ==
  {EMPTY, Str(<<"x">>), Str(<<"/", "x">>), Str(<<"x", "/">>), DOT, DOTDOT}

\* the components given to from: a path over the alphabet, with or without an authority
JoinComponents ==
  {OwnValues(UriOf(FOO, authority, path, EMPTY, EMPTY)) :
     authority \in {EMPTY, Str(<<"h">>)},
     path \in UNION {[1..k -> JoinAlphabet] : k \in 0..MaxJoinPathLen}}

\* Uri.from called first, its instance kept
FromJoinable ==
  /\ NoCallYet
  /\ \E components \in JoinComponents : From(components, MaxObjs)

\* Utils.joinPath called on the instance from returned
JoinOnce ==
  /\ last.op = "from" /\ last.kind = "uri"
  /\ \E i \in DOMAIN heap : \E n \in 0..MaxSegments : \E paths \in [1..n -> JoinSegments] :
       JoinPath(i, paths, 0)

NextPaths ==
  \/ FromJoinable
  \/ JoinOnce

SpecPaths == Init /\ [][NextPaths]_vars

(***************************************************************************)
(* The path utilities: one instance is made by from and kept, and one of   *)
(* joinPath, resolvePath and dirname is called on it once, the process     *)
(* being in one of the working directories; the instance the call returns  *)
(* is looked at but not kept                                               *)
(***************************************************************************)
\* Utils.resolvePath called on the instance from returned
ResolveOnce ==
  /\ last.op = "from" /\ last.kind = "uri"
  /\ \E i \in DOMAIN heap : \E n \in 0..MaxSegments : \E paths \in [1..n -> JoinSegments] :
       \E cwd \in SmallCwds : ResolvePath(i, paths, cwd, 0)

\* Utils.dirname called on the instance from returned
DirnameOnce ==
  /\ last.op = "from" /\ last.kind = "uri"
  /\ \E i \in DOMAIN heap : Dirname(i, 0)

NextUtils ==
  \/ FromJoinable
  \/ JoinOnce
  \/ ResolveOnce
  \/ DirnameOnce

SpecUtils == Init /\ [][NextUtils]_vars

(***************************************************************************)
(* The map: Uris are made by from and kept, up to MaxResources of them,    *)
(* and the methods of the one ResourceMap are called with them             *)
(***************************************************************************)
MaxResources == 2

\* Uri.from, its instance kept
FromResource ==
  /\ Len(heap) < MaxResources
  /\ \E components \in MapComponents : From(components, MaxResources)

NextMap ==
  \/ FromResource
  \/ \E i \in DOMAIN heap : \E value \in MapValues : Set(i, value)
  \/ \E i \in DOMAIN heap : Get(i)
  \/ \E i \in DOMAIN heap : Has(i)
  \/ \E i \in DOMAIN heap : Delete(i)
  \/ Clear
  \/ Size
  \/ \E parsed \in {ParsedKey} : Entries(parsed)

SpecMap == InitInputs /\ [][NextMap]_vars

(***************************************************************************)
(* Properties                                                              *)
(***************************************************************************)
\* the last call returned an instance
ReturnedUri == last.kind = "uri"

\* parse(u.toString()) for the instance the last call returned
Reparsed ==
  LET s == asFormatted(last.uri, FALSE)
  IN IF s.ok THEN parse(s.v) ELSE Thrown("TypeError")

\* C1: for every Uri u obtained from parse or file, parse(u.toString()) is
\* returned and has the same scheme, authority, path, query and fragment as u.
C1_RoundTripComponents ==
  (ReturnedUri /\ last.op \in {"parse", "file"}) =>
    (Reparsed.kind = "uri" /\ Components(Reparsed.uri) = last.uri)

\* C2: for every Uri u obtained from parse or file, parse(u.toString()).toString()
\* is the string u.toString().
C2_RoundTripString ==
  (ReturnedUri /\ last.op \in {"parse", "file"}) =>
    /\ Reparsed.kind = "uri"
    /\ asFormatted(Reparsed.uri, FALSE) = asFormatted(last.uri, FALSE)

\* C8: Uri.file never raises, whatever its argument.
C8_FileNeverRaises == last.op = "file" => last.kind # "error"

\* the argument of file with every backslash written as a slash
FileArgSlashed == [i \in 1..Len(last.str) |-> IF last.str[i] = BACKSLASH THEN SLASH ELSE last.str[i]]

\* C9: a Uri returned by file(p) has scheme 'file', no backslash in authority or
\* path, and a path starting with '/'. With p' = p with '\' replaced by '/': when p'
\* starts with '//', the authority is the text between that '//' and the next '/'
\* and the path the rest from that '/' on ('/' when there is none); otherwise the
\* authority is empty and the path is p', with '/' before it when it has none.
C9_FileComponents ==
  (last.op = "file" /\ ReturnedUri) =>
    LET p == FileArgSlashed
        u == last.uri
    IN /\ u.scheme = FILE /\ u.query = EMPTY /\ u.fragment = EMPTY
       /\ \A i \in 1..Len(u.authority) : u.authority[i] # BACKSLASH
       /\ \A i \in 1..Len(u.path) : u.path[i] # BACKSLASH
       /\ u.path # EMPTY /\ u.path[1] = SLASH
       /\ IF Len(p) >= 2 /\ p[1] = SLASH /\ p[2] = SLASH
          THEN /\ \A i \in 1..Len(u.authority) : u.authority[i] # SLASH
               /\ \/ p = <<SLASH, SLASH>> \o u.authority \o u.path
                  \/ p = <<SLASH, SLASH>> \o u.authority /\ u.path = <<SLASH>>
          ELSE /\ u.authority = EMPTY
               /\ u.path = IF p # EMPTY /\ p[1] = SLASH THEN p ELSE <<SLASH>> \o p

\* file was given a UNC path written with backslashes and returned its host and path
C9_Witness ==
  /\ last.op = "file" /\ ReturnedUri
  /\ Len(last.str) >= 4 /\ last.str[1] = BACKSLASH /\ last.str[2] = BACKSLASH
  /\ last.uri.authority # EMPTY /\ Len(last.uri.path) >= 2

\* the first position of a character of `marks` in s, Len(s) + 1 when there is none
FirstOf(s, marks) ==
  IF \E i \in 1..Len(s) : s[i] \in marks
  THEN CHOOSE i \in 1..Len(s) : s[i] \in marks /\ \A j \in 1..(i - 1) : s[j] \notin marks
  ELSE Len(s) + 1

\* the decomposition of a raw string, cut at its marks from the right: the
\* fragment after the first '#', the query after the first '?' before it, the
\* scheme before the first ':' when it is non-empty and holds no '/', the
\* authority after a '//' up to the next '/', and the path
Decomposed(raw) ==
  LET h == FirstOf(raw, {HASH})
      main == SubSeq(raw, 1, h - 1)
      q == FirstOf(main, {QUESTION})
      hier == SubSeq(main, 1, q - 1)
      c == FirstOf(hier, {COLON})
      hasScheme == c <= Len(hier) /\ c > 1 /\ \A i \in 1..(c - 1) : hier[i] # SLASH
      rest == IF hasScheme THEN SubSeq(hier, c + 1, Len(hier)) ELSE hier
      hasAuthority == Len(rest) >= 2 /\ rest[1] = SLASH /\ rest[2] = SLASH
      tail == IF hasAuthority THEN SubSeq(rest, 3, Len(rest)) ELSE rest
      a == IF hasAuthority THEN FirstOf(tail, {SLASH}) ELSE 1
  IN [scheme |-> IF hasScheme THEN SubSeq(hier, 1, c - 1) ELSE EMPTY,
      authority |-> SubSeq(tail, 1, a - 1),
      path |-> SubSeq(tail, a, Len(tail)),
      query |-> SubSeq(main, q + 1, Len(main)),
      fragment |-> SubSeq(raw, h + 1, Len(raw))]

\* the decomposition with authority, path, query and fragment percent-decoded
DecomposedDecoded(raw) ==
  LET d == Decomposed(raw)
  IN [scheme |-> d.scheme, authority |-> decodeURIComponent(d.authority).v,
      path |-> decodeURIComponent(d.path).v, query |-> decodeURIComponent(d.query).v,
      fragment |-> decodeURIComponent(d.fragment).v]

\* C10: a Uri returned by parse(raw) has the components of the decomposition of
\* raw, the scheme as written and the other four percent-decoded.
C10_ParseDecomposition ==
  (last.op = "parse" /\ ReturnedUri) => last.uri = DecomposedDecoded(last.str)

\* the decomposition is that of parse for every raw string without a line terminator
C10_ParseDecompositionOneLine ==
  (last.op = "parse" /\ ReturnedUri
     /\ \A i \in 1..Len(last.str) : last.str[i] \notin LineTerminators)
    => last.uri = DecomposedDecoded(last.str)

\* the validation invariants I1 and I2, of five components c
SatisfiesI1(c) == (c.authority # EMPTY /\ c.path # EMPTY) => c.path[1] = SLASH
SatisfiesI2(c) ==
  c.authority = EMPTY => ~(Len(c.path) >= 2 /\ c.path[1] = SLASH /\ c.path[2] = SLASH)

\* C3: every Uri that exists, kept by the caller or just returned by a call,
\* satisfies I1 (authority and path both non-empty: the path starts with '/') and
\* I2 (authority empty: the path does not start with '//').
C3_AllValid ==
  /\ \A i \in DOMAIN heap : SatisfiesI1(heap[i]) /\ SatisfiesI2(heap[i])
  /\ ReturnedUri => (SatisfiesI1(last.uri) /\ SatisfiesI2(last.uri))

\* with returned a new Uri whose path starts with '//', its authority being non-empty
C3_Witness ==
  /\ last.op = "with" /\ ReturnedUri /\ last.ref # last.recv
  /\ last.uri.authority # EMPTY
  /\ Len(last.uri.path) >= 2 /\ last.uri.path[1] = SLASH /\ last.uri.path[2] = SLASH

\* the components a change asks for: each property that is given and non-empty,
\* the current component otherwise
Merged(current, change) ==
  [f \in FieldNames |->
     IF change[f].present /\ change[f].v # EMPTY THEN change[f].v ELSE current[f]]

\* the components the call c, made in the current state, would produce
Wanted(c) ==
  IF c.op = "parse"
  THEN LET d == parseComponents(c.str)
       IN [scheme |-> d.scheme, authority |-> decodeURIComponent(d.authority).v,
           path |-> decodeURIComponent(d.path).v, query |-> decodeURIComponent(d.query).v,
           fragment |-> decodeURIComponent(d.fragment).v]
  ELSE IF c.op = "from" THEN Merged(Components(NewUri), c.change)
  ELSE Merged(Components(heap[c.recv]), c.change)

\* s is a non-empty scheme, ':' and at least four slashes
SchemeThenFourSlashes(s) ==
  \E k \in 1..Len(s) :
    /\ k > 1 /\ s[k] = COLON
    /\ \A j \in 1..(k - 1) : s[j] \notin {COLON, SLASH, QUESTION, HASH}
    /\ Len(s) >= k + 4 /\ \A j \in (k + 1)..(k + 4) : s[j] = SLASH

\* C4: a call of parse, from or with whose components would violate I1 or I2
\* raises and returns no Uri, the kept instances (the receiver of with among
\* them) staying as they were; parse raises for every 'scheme:////...'.
C4_InvalidRaises ==
  [][/\ (last'.op \in {"parse", "from", "with"}
           /\ ~(SatisfiesI1(Wanted(last')) /\ SatisfiesI2(Wanted(last'))))
          => (last'.kind = "error" /\ heap' = heap)
     /\ (last'.op = "parse" /\ SchemeThenFourSlashes(last'.str)) => last'.kind = "error"]_vars

\* with was asked for an authority on a Uri whose path has no leading slash, and raised
C4_Witness ==
  /\ last.op = "with" /\ last.kind = "error" /\ last.err = "UriError"
  /\ last.change.authority.present /\ last.change.authority.v # EMPTY
  /\ heap[last.recv].authority = EMPTY /\ heap[last.recv].path # EMPTY

\* the change, if an object, gives no property or repeats the receiver's components
LeavesAllEqual(change, u) ==
  change.kind = "object" => \A f \in FieldNames : ~change[f].present \/ change[f].v = u[f]

\* C5: with returns the receiver itself (the same identity) when the change is
\* null, undefined, {} or repeats the receiver's own component values.
C5_WithIdentity ==
  /\ (last.op = "with" /\ LeavesAllEqual(last.change, heap[last.recv]))
       => (ReturnedUri /\ last.ref = last.recv)
  /\ \A i \in DOMAIN heap :
       \A change \in {NullChange, UndefinedChange, EmptyChange, OwnValues(heap[i])} :
         with(heap[i], change).kind = "this"

\* with was given the receiver's own non-empty components and returned the receiver
C5_Witness ==
  /\ last.op = "with" /\ last.change.kind = "object"
  /\ last.change.path.present /\ last.change.path.v # EMPTY
  /\ last.change = OwnValues(heap[last.recv])
  /\ ReturnedUri /\ last.ref = last.recv

\* C6: no call changes the components of an instance that exists, and a with
\* that returns components other than its receiver's returns another instance.
C6_Immutable ==
  [][/\ \A i \in DOMAIN heap :
          i \in DOMAIN heap' /\ Components(heap'[i]) = Components(heap[i])
     /\ (last'.op = "with" /\ last'.kind = "uri"
           /\ last'.uri # Components(heap[last'.recv]))
          => last'.ref # last'.recv]_vars

\* with returned a new instance from a receiver that toString and fsPath had
\* both been called on
C6_Witness ==
  /\ last.op = "with" /\ ReturnedUri /\ last.ref # last.recv
  /\ last.uri # Components(heap[last.recv])
  /\ ~heap[last.recv].formatted.null /\ ~heap[last.recv].fsPath.null

\* C7: with given one property, the empty string, returns the receiver itself,
\* and no with returns a Uri with an empty component where its receiver has a
\* non-empty one.
C7_EmptyIsAbsent ==
  /\ (last.op = "with" /\ \E f \in FieldNames : last.change = OneProp(f, EMPTY))
       => (ReturnedUri /\ last.ref = last.recv)
  /\ (last.op = "with" /\ ReturnedUri)
       => \A f \in FieldNames : heap[last.recv][f] # EMPTY => last.uri[f] # EMPTY

\* with was given { path: '' } on a Uri with a path and returned that Uri
C7_Witness ==
  /\ last.op = "with" /\ last.change = OneProp("path", EMPTY)
  /\ heap[last.recv].path # EMPTY
  /\ ReturnedUri /\ last.ref = last.recv /\ last.uri.path # EMPTY

\* s has a '%' that two hexadecimal digits do not follow
HasMalformedEscape(s) ==
  \E k \in 1..Len(s) :
    /\ s[k] = PERCENT
    /\ ~(k + 2 <= Len(s) /\ HexVal(s[k + 1]) >= 0 /\ HexVal(s[k + 2]) >= 0)

\* s has no '%' that two hexadecimal digits follow
NoWellFormedEscape(s) ==
  \A k \in 1..Len(s) :
    s[k] = PERCENT => ~(k + 2 <= Len(s) /\ HexVal(s[k + 1]) >= 0 /\ HexVal(s[k + 2]) >= 0)

\* C11: parse of a string with a malformed percent-sequence does not raise: it
\* returns a Uri, and a component whose text holds no well-formed escape is
\* that text unchanged.
C11_MalformedEscapeKept ==
  (last.op = "parse" /\ last.kind \in {"uri", "error"} /\ HasMalformedEscape(last.str))
    => /\ ReturnedUri
       /\ LET d == parseComponents(last.str)
          IN \A f \in {"authority", "path", "query", "fragment"} :
               NoWellFormedEscape(d[f]) => last.uri[f] = d[f]

\* the number of places of s that hold the character c
CountOf(c, s) == Cardinality({k \in 1..Len(s) : s[k] = c})

\* the receiver of the last call
Receiver == heap[last.recv]

\* C12: u.toString(true) holds no bare '#' or '?' in its path part: with no
\* such character in the other components, the only '#' of the result is the
\* one that opens the fragment and the only '?' the one that opens the query,
\* and parse of the result keeps every '#' and '?' of u.path inside the path.
C12_PathMarksEscaped ==
  (/\ last.op = "toString" /\ last.skip /\ last.kind = "string"
   /\ \A f \in {"scheme", "authority", "query", "fragment"} :
        CountOf(HASH, Receiver[f]) = 0 /\ CountOf(QUESTION, Receiver[f]) = 0)
    => /\ CountOf(HASH, last.out) = (IF Receiver.fragment # EMPTY THEN 1 ELSE 0)
       /\ CountOf(QUESTION, last.out) = (IF Receiver.query # EMPTY THEN 1 ELSE 0)
       /\ LET r == parse(last.out)
          IN r.kind = "uri" =>
               /\ CountOf(HASH, r.uri.path) = CountOf(HASH, Receiver.path)
               /\ CountOf(QUESTION, r.uri.path) = CountOf(QUESTION, Receiver.path)

\* toString() returned a string
Formatted == last.op = "toString" /\ ~last.skip /\ last.kind = "string"

\* the scheme and its ':' as toString writes them
SchemePrefix == IF Receiver.scheme # EMPTY THEN Receiver.scheme \o <<COLON>> ELSE EMPTY

\* C13: u.toString() starts with u.scheme and ':' when the scheme is not
\* empty, and what follows starts with '//' exactly when the authority is not
\* empty or the scheme is 'file'.
C13_SchemeAndSlashes ==
  Formatted =>
    /\ Len(last.out) >= Len(SchemePrefix)
    /\ Substring(last.out, 0, Len(SchemePrefix)) = SchemePrefix
    /\ StartsWithTwoSlashes(SubstringFrom(last.out, Len(SchemePrefix)))
         <=> (Receiver.authority # EMPTY \/ Receiver.scheme = FILE)

\* toString() was called on a file Uri with no authority and a path, and the
\* '//' is written after 'file:'
C13_Witness ==
  /\ Formatted
  /\ Receiver.scheme = FILE /\ Receiver.authority = EMPTY /\ Receiver.path # EMPTY
  /\ StartsWithTwoSlashes(SubstringFrom(last.out, Len(SchemePrefix)))

\* the authority lower-cased, and the place of its first ':' (-1 for none)
LowerAuthority == ToLowerCase(Receiver.authority)
PortAt == IndexOfChar(LowerAuthority, COLON, 0)

\* what the claim has toString write for the authority
WrittenAuthority ==
  IF PortAt = -1 THEN encodeURIComponent2(LowerAuthority).v
  ELSE encodeURIComponent2(Substring(LowerAuthority, 0, PortAt)).v
         \o SubstringFrom(LowerAuthority, PortAt)

\* C14: in u.toString() the authority is written lower-cased, the part before
\* its first ':' percent-encoded and everything from the first ':' on as it
\* is, right after the scheme and the '//'.
C14_AuthorityWritten ==
  (Formatted /\ Receiver.authority # EMPTY) =>
    LET start == Len(SchemePrefix) + 2
    IN /\ Len(last.out) >= start + Len(WrittenAuthority)
       /\ Substring(last.out, start, start + Len(WrittenAuthority)) = WrittenAuthority

\* toString() was called on a Uri whose authority has an upper-case letter
\* before a ':', and the result holds the ':' unescaped
C14_Witness ==
  /\ Formatted
  /\ PortAt > 0 /\ IsUpper(Receiver.authority[1])
  /\ CountOf(COLON, last.out) = CountOf(COLON, SchemePrefix) + CountOf(COLON, Receiver.authority)

\* s begins with a drive: an ASCII letter and ':'
StartsWithDrive(s) ==
  Len(s) >= 2 /\ (IsUpper(s[1]) \/ IsLower(s[1])) /\ s[2] = COLON

\* s with its first character lower-cased
LowerFirst(s) == <<LowerChar(s[1])>> \o SubstringFrom(s, 1)

\* s with every backslash written as a slash
Slashed(s) == [i \in 1..Len(s) |-> IF s[i] = BACKSLASH THEN SLASH ELSE s[i]]

\* C15: on a host that is not Windows and for a Uri with no authority, fsPath
\* is the path, but for the letter of a leading '/' + ASCII letter + ':',
\* which is lower-cased; the leading '/' is kept, and a path whose second
\* character is no ASCII letter is returned unchanged.
C15_FsPathKeepsPath ==
  (last.op = "fsPath" /\ ~isWindows /\ Receiver.authority = EMPTY) =>
    last.out = IF Len(Receiver.path) >= 1 /\ Receiver.path[1] = SLASH
                  /\ StartsWithDrive(SubstringFrom(Receiver.path, 1))
               THEN <<SLASH>> \o LowerFirst(SubstringFrom(Receiver.path, 1))
               ELSE Receiver.path

\* what the claim has file(p).fsPath be for the forward-slash form q of p: the
\* drive form without a '/' before the letter, a UNC path '//host/rest' as it
\* is, another absolute path as it is, any other path after one '/'; nothing
\* is said of a path with '//' and no host, or no '/' after the host
FileFsPathWanted(q, out) ==
  IF StartsWithDrive(q) THEN out = LowerFirst(q)
  ELSE IF Len(q) >= 1 /\ q[1] = SLASH /\ StartsWithDrive(SubstringFrom(q, 1))
    THEN out = LowerFirst(SubstringFrom(q, 1))
  ELSE IF StartsWithTwoSlashes(q)
    THEN (IndexOfChar(q, SLASH, 2) > 2) => out = q
  ELSE IF Len(q) >= 1 /\ q[1] = SLASH THEN out = q
  ELSE out = <<SLASH>> \o q

\* C16: Uri.file(p).fsPath, its backslashes written as '/', is the
\* forward-slash form of p with the drive letter lower-cased and no '/' before
\* it, a UNC path as given, and any path that starts with neither '/' nor a
\* drive letter after one '/'.
C16_FileFsPath ==
  [][(last.op = "file" /\ ReturnedUri /\ last'.op = "fsPath")
       => FileFsPathWanted(FileArgSlashed, Slashed(last'.out))]_vars

\* '//' + authority + path in the separators of the platform
UncForm ==
  LET value == <<SLASH, SLASH>> \o Receiver.authority \o Receiver.path
  IN IF isWindows THEN [i \in 1..Len(value) |-> IF value[i] = SLASH THEN BACKSLASH ELSE value[i]]
     ELSE value

\* C17: fsPath does not look at the scheme: a Uri with the same authority and
\* path under any other scheme has the same fsPath, and a Uri with an
\* authority yields '//' + authority + path.
C17_FsPathIgnoresScheme ==
  last.op = "fsPath" =>
    /\ \A scheme \in FormatSchemes :
         fsPathValue([Receiver EXCEPT !.scheme = scheme], isWindows) = last.out
    /\ Receiver.authority # EMPTY => last.out = UncForm

\* joinPath returned a Uri
Joined == last.op = "joinPath" /\ ReturnedUri

\* s ends with '/'
EndsWithSlash(s) == Len(s) >= 1 /\ s[Len(s)] = SLASH

\* the path of the receiver, taken as '/' when empty
PathOrRoot == IF Receiver.path = EMPTY THEN <<SLASH>> ELSE Receiver.path

\* C18: joinPath(u, ...segments) with one segment or more has as path the
\* POSIX join of u.path, taken as '/' when empty, with the segments, and the
\* result ends with '/' exactly when the last segment given does.
C18_JoinedPath ==
  (Joined /\ Len(last.paths) >= 1) =>
    /\ last.uri.path = posixJoin(<<PathOrRoot>> \o last.paths)
    /\ EndsWithSlash(last.uri.path) <=> EndsWithSlash(last.paths[Len(last.paths)])

\* joinPath was called with no segment and returned a Uri
Normalized == Joined /\ last.paths = << >>

\* the '/'-delimited pieces of s as a set
Pieces(s) == {SplitSlash(s)[k] : k \in 1..Len(SplitSlash(s))}

\* the Uri the last call returned, as an instance
ReturnedInstance ==
  UriOf(last.uri.scheme, last.uri.authority, last.uri.path, last.uri.query, last.uri.fragment)

NormalizesToNothing(path) ==
  /\ path # EMPTY /\ path[1] # SLASH
  /\ normalizeString(path, TRUE) = EMPTY

Resolved == last.op = "resolvePath" /\ ReturnedUri

\* C21: for a Uri whose path is absolute or empty, resolvePath(u, ...segments)
\* has as path the POSIX resolution of the segments against u.path, taken as
\* '/' when empty, and the result ends with no '/' unless it is '/'.
C21_ResolvedPath ==
  (Resolved /\ (Receiver.path = EMPTY \/ Receiver.path[1] = SLASH)) =>
    /\ last.uri.path = posixResolve(<<PathOrRoot>> \o last.paths, <<SLASH>>)
    /\ EndsWithSlash(last.uri.path) => last.uri.path = <<SLASH>>

\* C22: resolvePath does not depend on the working directory of the process:
\* in any other directory the call has the same outcome, and for a Uri with
\* no authority whose path is relative or empty the resolved path is relative.
C22_ResolveIgnoresCwd ==
  last.op = "resolvePath" =>
    /\ \A cwd \in SmallCwds :
         LET r == resolvePath(Receiver, last.paths, cwd)
         IN IF r.kind = "error" THEN last.kind = "error"
            ELSE /\ ReturnedUri
                 /\ Components(IF r.kind = "this" THEN Receiver ELSE r.uri) = last.uri
    /\ (ReturnedUri /\ Receiver.authority = EMPTY
          /\ (Receiver.path = EMPTY \/ Receiver.path[1] # SLASH))
         => (last.uri.path = EMPTY \/ last.uri.path[1] # SLASH)

\* s without the '/' it ends with, when it has more than that one character
WithoutTrailingSlash(s) ==
  IF Len(s) >= 2 /\ EndsWithSlash(s) THEN SubSeq(s, 1, Len(s) - 1) ELSE s

GivenNothing == last.change.kind \in {"null", "undefined"}

\* C24 as stated: from and with each raise, and return no Uri, when called
\* with an absent or null components argument.
C24_BothRaise ==
  (last.op \in {"from", "with"} /\ GivenNothing) => last.kind = "error"

\* C24 amended: from raises, and returns no Uri, when called with an absent or
\* null argument; with, given an absent or null change, raises nothing and
\* returns its receiver.
C24_FromRaisesWithReturnsThis ==
  /\ (last.op = "from" /\ GivenNothing) => last.kind = "error"
  /\ (last.op = "with" /\ GivenNothing)
       => (ReturnedUri /\ last.ref = last.recv /\ last.uri = Components(Receiver))

\* with was called with null on a Uri with a path and returned that Uri
C24_Witness ==
  /\ last.op = "with" /\ last.change.kind = "null"
  /\ Receiver.path # EMPTY
  /\ ReturnedUri /\ last.ref = last.recv

\* the keys of the entries
KeysOf(entries) == {entries[k].key : k \in 1..Len(entries)}

\* the entries as a function from keys to values
AsFunction(entries) ==
  [key \in KeysOf(entries) |-> entries[IndexOfKey(entries, key)].value]

\* the canonical string of a Uri, computed from its five components
CanonicalString(u) == asFormatted(u, FALSE).v

\* the last call was a method of the map that returned
MapCallReturned ==
  last.op \in {"set", "get", "has", "delete", "clear", "size", "entries"} /\ last.kind # "error"

\* C25: the ResourceMap is a map keyed by the canonical string of the Uri:
\* each call that returns takes the function from keys to values to the one a
\* map gives (set binds the key, delete unbinds it and tells whether it was
\* bound, clear unbinds all, the others change nothing), get returns the value
\* bound to the key, has tells whether one is, and size is the number of keys.
C25_MapRefinement ==
  [][MapCallReturned' =>
       LET before == AsFunction(map)
           after == AsFunction(map')
           key == CanonicalString(heap[last'.recv])
       IN CASE last'.op = "set" ->
                 after = [k \in DOMAIN before \cup {key} |->
                            IF k = key THEN last'.value ELSE before[k]]
            [] last'.op = "delete" ->
                 /\ after = [k \in DOMAIN before \ {key} |-> before[k]]
                 /\ last'.flag = (key \in DOMAIN before)
            [] last'.op = "clear" -> map' = << >>
            [] last'.op = "get" ->
                 /\ map' = map
                 /\ IF key \in DOMAIN before
                    THEN last'.kind = "value" /\ last'.value = before[key]
                    ELSE last'.kind = "undefined"
            [] last'.op = "has" -> map' = map /\ last'.flag = (key \in DOMAIN before)
            [] last'.op = "size" ->
                 map' = map /\ last'.value = Cardinality(DOMAIN before)
            [] OTHER -> map' = map]_vars

\* get, called with one of two Uris that differ in their components and have
\* the same canonical string, returned the value of the one entry
C25_Witness ==
  /\ last.op = "get" /\ last.kind = "value"
  /\ Len(heap) = 2 /\ Len(map) = 1 /\ last.recv = 2
  /\ Components(heap[1]) # Components(heap[2])
  /\ CanonicalString(heap[1]) = CanonicalString(heap[2])
  /\ ~heap[1].formatted.null

\* C29: iterating the map yields one Uri per entry, in the order of the
\* entries, each the parse of the stored key with the value of the entry, and
\* every Uri yielded is a key of the map: has of it is true and get of it
\* returns the value yielded with it.
C29_YieldedKeysAreKeys ==
  last.op = "entries" =>
    /\ last.kind = "entries"
    /\ Len(last.entries) = Len(map)
    /\ \A k \in 1..Len(map) :
         /\ last.entries[k].key = parse(map[k].key)
         /\ last.entries[k].value = map[k].value
         /\ last.entries[k].key.kind = "uri"
         /\ CanonicalString(last.entries[k].key.uri) \in KeysOf(map)
         /\ AsFunction(map)[CanonicalString(last.entries[k].key.uri)] = map[k].value

\* C27: toString() and toString(true) return a string, and do not raise, for
\* every Uri, whatever its path starts with.
C27_ToStringNeverRaises == last.op = "toString" => last.kind = "string"

\* C28: joinPath, resolvePath and dirname return without raising for every
\* Uri and every list of segments, and the Uri they return satisfies I1 and I2.
C28_UtilsNeverRaise ==
  last.op \in {"joinPath", "resolvePath", "dirname"} =>
    (ReturnedUri /\ SatisfiesI1(last.uri) /\ SatisfiesI2(last.uri))

\* C26: over every sequence of toString(), toString(true) and fsPath calls on
\* an instance: a toString() that returns leaves its result in the cache; once
\* the cache is set every toString() returns what it holds; toString(true)
\* writes no cache; no call writes a cache that is set; a cache that is set
\* keeps its value, which is the formatting (the file system path) of the
\* five components.
C26_CachedOnce ==
  [][\A i \in DOMAIN heap :
       LET called == last'.recv = i /\ last'.op \in {"toString", "fsPath"}
           plain == called /\ last'.op = "toString" /\ ~last'.skip /\ last'.kind = "string"
       IN /\ plain => (~heap'[i].formatted.null /\ heap'[i].formatted.v = last'.out)
          /\ (plain /\ ~heap[i].formatted.null) => last'.out = heap[i].formatted.v
          /\ (called /\ last'.op = "toString" /\ last'.skip)
               => (last'.wrote = {} /\ heap'[i] = heap[i])
          /\ (called /\ ~heap[i].formatted.null) => "formatted" \notin last'.wrote
          /\ (called /\ ~heap[i].fsPath.null) => "fsPath" \notin last'.wrote
          /\ ~heap[i].formatted.null => heap'[i].formatted = heap[i].formatted
          /\ ~heap[i].fsPath.null => heap'[i].fsPath = heap[i].fsPath
          /\ ~heap'[i].formatted.null
               => heap'[i].formatted.v = asFormatted(heap'[i], FALSE).v
          /\ ~heap'[i].fsPath.null
               => heap'[i].fsPath.v = fsPathValue(heap'[i], isWindows)]_vars

====
